---- MODULE Spec2Model ----
(***************************************************************************)
(* The randomness-evaluation pipeline of Cogs18-Final/my_module:           *)
(*   data_processing.generate_random_dataset                               *)
(*   analysis.calculate_metrics, analysis.perform_clustering               *)
(*   testing.perform_chi_square_test                                       *)
(* A DataFrame is a record [index, columns, dtypes, values]; a call either *)
(* returns a value (ret) or raises a Python exception (exc).  Floating     *)
(* point results are kept as exact, normalised rationals [num, den].       *)
(***************************************************************************)
EXTENDS Integers, Sequences, FiniteSets, TLC

VARIABLES data, call, ret, exc, csv

vars == <<data, call, ret, exc, csv>>

(* ------------------------------ bounds -------------------------------- *)
\* rows of the datasets the analysis functions are applied to
MaxRows == 3
\* response values of those datasets are drawn from 1..MaxVal
MaxVal == 2
\* n_clusters is drawn from -1..MaxK
MaxK == 2
\* num_rows of generate_random_dataset is drawn from -1..MaxGenRows
MaxGenRows == 2

(* ----------------------------- helpers -------------------------------- *)
Range(s) == {s[i] : i \in DOMAIN s}

Abs(x) == IF x < 0 THEN 0 - x ELSE x

RECURSIVE GCD(_, _)
GCD(a, b) == IF b = 0 THEN a ELSE GCD(b, a % b)

\* a Python float, kept exact: the fraction n/d in lowest terms, d > 0
Rat(n, d) ==
    LET s == IF d < 0 THEN 0 - 1 ELSE 1
        g == GCD(Abs(n), Abs(d))
    IN [num |-> (s * n) \div g, den |-> (s * d) \div g]

RatAdd(a, b) == Rat(a.num * b.den + b.num * a.den, a.den * b.den)
RatSub(a, b) == Rat(a.num * b.den - b.num * a.den, a.den * b.den)
RatMul(a, b) == Rat(a.num * b.num, a.den * b.den)
RatDiv(a, b) == Rat(a.num * b.den, a.den * b.num)
RatLess(a, b) == a.num * b.den < b.num * a.den
RatAbs(a) == [num |-> Abs(a.num), den |-> a.den]
FromInt(n) == [num |-> n, den |-> 1]

RECURSIVE RatSum(_)
RatSum(s) == IF s = <<>> THEN FromInt(0) ELSE RatAdd(Head(s), RatSum(Tail(s)))

(* ------------------------ the generator's tables ---------------------- *)
\* data_processing.py:25, the values np.random.choice draws from
Choices == <<1, 2, 3, 4, 5, 6, 7, 8, 9, 10>>
\* data_processing.py:27, p in hundredths
Weights == <<10, 15, 5, 10, 20, 10, 10, 10, 5, 5>>
\* data_processing.py:31
Categories == <<"A", "B", "C", "D">>

RECURSIVE SeqSum(_)
SeqSum(s) == IF s = <<>> THEN 0 ELSE Head(s) + SeqSum(Tail(s))

\* np.random.choice(a, size, p): the values a draw can give.  The seed (42)
\* fixes one sequence of draws; the model allows every draw of positive
\* probability.
Support(a, p) == {a[i] : i \in {j \in DOMAIN a : p[j] > 0}}

(* ----------------------------- DataFrames ----------------------------- *)
EmptyFrame ==
    [index |-> 0, columns |-> <<>>, dtypes |-> <<>>, values |-> <<>>]

\* pd.DataFrame({'response': ..., 'category': ..., 'timestamp': ...});
\* a timestamp is kept as its distance in minutes from 2024-01-01 00:00
MakeFrame(responses, categories, timestamps) ==
    [index   |-> Len(responses),
     columns |-> <<"response", "category", "timestamp">>,
     dtypes  |-> [response |-> "int64", category |-> "object",
                  timestamp |-> "datetime64[ns]"],
     values  |-> [response |-> responses, category |-> categories,
                  timestamp |-> timestamps]]

\* date_range with the slip of counting the minutes from 1
DateRangeFromOne(n) == [i \in 1..n |-> i]

\* pd.date_range(start="2024-01-01", periods=n, freq="min")
DateRange(n) == [i \in 1..n |-> i - 1]

HasColumn(df, c) == c \in Range(df.columns)

\* df[c] = v with the slip of appending a column that is already there
SetItemAlwaysAppends(df, c, dt, v) ==
    [df EXCEPT !.columns = Append(df.columns, c),
               !.dtypes = (c :> dt) @@ df.dtypes,
               !.values = (c :> v) @@ df.values]

\* df[c] = v : an existing column is overwritten in place, a new one is
\* appended after the others
SetItem(df, c, dt, v) ==
    [df EXCEPT !.columns = IF HasColumn(df, c) THEN df.columns
                           ELSE Append(df.columns, c),
               !.dtypes = (c :> dt) @@ df.dtypes,
               !.values = (c :> v) @@ df.values]

(* ------------------------- Series primitives -------------------------- *)
Count(s, v) == Cardinality({i \in DOMAIN s : s[i] = v})

\* nunique with the slip of counting the rows
NUniqueCountsRows(s) == Len(s)

\* Series.nunique()
NUnique(s) == Cardinality(Range(s))

\* position of the first occurrence of v in s
FirstPos(s, v) == CHOOSE i \in DOMAIN s : s[i] = v /\ \A j \in 1..(i - 1) : s[j] # v

\* Series.value_counts(): one [value, count] entry per distinct value, by
\* descending count, equal counts in order of first appearance
ValueCounts(s) ==
    LET u == Range(s)
        Before(a, b) == \/ Count(s, a) > Count(s, b)
                        \/ Count(s, a) = Count(s, b) /\ FirstPos(s, a) < FirstPos(s, b)
        At(p) == CHOOSE v \in u : Cardinality({w \in u : Before(w, v)}) = p - 1
    IN [p \in 1..Cardinality(u) |-> [value |-> At(p), count |-> Count(s, At(p))]]

\* the order pandas sorts values of a column by
StrRank(c) == CHOOSE i \in DOMAIN Categories : Categories[i] = c
ValLess(dtype, a, b) ==
    IF dtype = "object" THEN StrRank(a) < StrRank(b) ELSE a < b

\* mode with the slip of leaving the values in value_counts order
ModeUnsorted(s, dtype) ==
    LET vc == ValueCounts(s)
        top == {p \in DOMAIN vc : vc[p].count = vc[1].count}
    IN [p \in 1..Cardinality(top) |-> vc[p].value]

\* Series.mode(): the values of maximal count, sorted ascending
Mode(s, dtype) ==
    LET u == Range(s)
        m == {v \in u : \A w \in u : Count(s, w) <= Count(s, v)}
        At(p) == CHOOSE v \in m : Cardinality({w \in m : ValLess(dtype, w, v)}) = p - 1
    IN [p \in 1..Cardinality(m) |-> At(p)]

(* ------------------------------ outcomes ------------------------------ *)
NoReturn == [kind |-> "none"]
Raise(e) == [exc |-> e, ret |-> NoReturn]
Return(v) == [exc |-> "", ret |-> v]

(* ------------------ analysis.calculate_metrics ------------------------ *)
\* calculate_metrics with the slip of skipping the division on no rows
CalculateMetricsNoDivision(df, column) ==
    IF ~HasColumn(df, column) THEN Raise("KeyError")
    ELSE LET s == df.values[column]
         IN Return([kind |-> "metrics",
                    num_unique |-> NUnique(s),
                    num_total |-> Len(s),
                    proportion_unique |-> Rat(0, 1),
                    most_common |-> IF s = <<>> THEN 0
                                    ELSE Mode(s, df.dtypes[column])[1],
                    count_most_common |-> IF s = <<>> THEN 0
                                          ELSE ValueCounts(s)[1].count])

CalculateMetrics(df, column) ==
    IF ~HasColumn(df, column) THEN Raise("KeyError")
    ELSE LET s == df.values[column]
             num_unique == NUnique(s)
             num_total == Len(s)
         IN IF num_total = 0 THEN Raise("ZeroDivisionError")
            ELSE Return([kind |-> "metrics",
                         num_unique |-> num_unique,
                         num_total |-> num_total,
                         proportion_unique |-> Rat(num_unique, num_total),
                         most_common |-> Mode(s, df.dtypes[column])[1],
                         count_most_common |-> ValueCounts(s)[1].count])

(* ------------------ testing.perform_chi_square_test ------------------- *)
\* value_counts with the slip of a bucket for a value that never occurs
ObservedWithEmptyBucket(s) ==
    LET vc == ValueCounts(s)
    IN IF s = <<>> THEN <<>> ELSE Append([p \in DOMAIN vc |-> vc[p].count], 0)

\* data[column].value_counts().values
Observed(s) ==
    LET vc == ValueCounts(s) IN [p \in DOMAIN vc |-> vc[p].count]

\* scipy.stats.chisquare(observed, f_exp=expected): the statistic is
\* sum((o - e)^2 / e); the p-value is the chi-square survival function with
\* len(observed) - 1 degrees of freedom, which is nan for 0 degrees, 1.0 at
\* statistic 0 and strictly between 0 and 1 otherwise
ChiSquare(observed, expected) ==
    LET term(i) == LET d == RatSub(FromInt(observed[i]), expected[i])
                   IN RatDiv(RatMul(d, d), expected[i])
        chi2 == RatSum([i \in DOMAIN observed |-> term(i)])
        dof == Len(observed) - 1
    IN [kind |-> "test",
        chi2 |-> chi2,
        p_value |-> IF dof <= 0 THEN "nan"
                    ELSE IF chi2.num = 0 THEN "1.0" ELSE "(0,1)"]

PerformChiSquareTest(df, column) ==
    IF ~HasColumn(df, column) THEN Raise("KeyError")
    ELSE LET observed == Observed(df.values[column])
         IN IF Len(observed) = 0 THEN Raise("ZeroDivisionError")
            ELSE LET expected == [i \in DOMAIN observed |->
                                     Rat(df.index, Len(observed))]
                 IN Return(ChiSquare(observed, expected))

(* ------------------ analysis.perform_clustering ----------------------- *)
\* KMeans(n_clusters, random_state=0).fit_predict on one numeric column x.
\* k-means++ seeding: the first centre is any sample; a later centre is
\* drawn with probability proportional to its squared distance to the
\* centres chosen so far, so it differs from all of them, unless every
\* sample already coincides with a centre, when sample 0 is taken.  The
\* seeded generator fixes one such seeding; the model allows each of them.
\* The result is the sequence of the initial centres, X[indices].
KMeansPlusPlus(x, k) ==
    LET n == Len(x)
        Covered(c, j) == \A i \in 1..n : \E m \in 1..(j - 1) : x[c[m]] = x[i]
        seedings == {c \in [1..k -> 1..n] :
                       \A j \in 2..k :
                          IF Covered(c, j) THEN c[j] = 1
                          ELSE \A m \in 1..(j - 1) : x[c[j]] # x[c[m]]}
    IN {[j \in 1..k |-> FromInt(x[c[j]])] : c \in seedings}

Dist(v, centre) == RatAbs(RatSub(FromInt(v), centre))

\* index (from 1) of the nearest centre, the first one among equally near
Nearest(v, centers) ==
    LET d == [m \in DOMAIN centers |-> Dist(v, centers[m])]
    IN CHOOSE j \in DOMAIN centers :
        /\ \A m \in DOMAIN centers : ~RatLess(d[m], d[j])
        /\ \A m \in 1..(j - 1) : RatLess(d[j], d[m])

\* the E-step: labels are 0-based
AssignLabels(x, centers) == [i \in DOMAIN x |-> Nearest(x[i], centers) - 1]

\* _relocate_empty_clusters_dense: the idx-th empty cluster takes the idx-th
\* farthest sample from the cluster that holds it
RECURSIVE Relocate(_, _, _, _, _, _)
Relocate(x, labels, acc, empty, far, idx) ==
    IF idx > Len(empty) THEN acc
    ELSE LET new == empty[idx]
             old == labels[far[idx]] + 1
             v == x[far[idx]]
             sums == [[acc.sums EXCEPT ![old] = @ - v] EXCEPT ![new] = v]
             weights == [[acc.weights EXCEPT ![old] = @ - 1] EXCEPT ![new] = 1]
         IN Relocate(x, labels, [sums |-> sums, weights |-> weights],
                     empty, far, idx + 1)

\* the M-step: each centre moves to the mean of its samples; a centre left
\* without samples stays at the origin of the mean-centred data
UpdateCenters(x, centers, labels) ==
    LET n == Len(x)
        k == Len(centers)
        members(j) == {i \in 1..n : labels[i] = j - 1}
        sums0 == [j \in 1..k |-> SeqSum([i \in 1..n |->
                                    IF labels[i] = j - 1 THEN x[i] ELSE 0])]
        weights0 == [j \in 1..k |-> Cardinality(members(j))]
        emptySet == {j \in 1..k : weights0[j] = 0}
        empty == [p \in 1..Cardinality(emptySet) |->
                    CHOOSE j \in emptySet :
                        Cardinality({m \in emptySet : m < j}) = p - 1]
        d == [i \in 1..n |-> Dist(x[i], centers[labels[i] + 1])]
        Farther(a, b) == RatLess(d[b], d[a]) \/ (d[a] = d[b] /\ a < b)
        far == [p \in 1..n |->
                  CHOOSE i \in 1..n :
                      Cardinality({m \in 1..n : Farther(m, i)}) = p - 1]
        acc0 == [sums |-> sums0, weights |-> weights0]
        acc == IF emptySet = {} \/ \A i \in 1..n : d[i].num = 0 THEN acc0
               ELSE Relocate(x, labels, acc0, empty, far, 1)
    IN [j \in 1..k |->
          IF acc.weights[j] > 0 THEN Rat(acc.sums[j], acc.weights[j])
          ELSE Rat(SeqSum(x), n)]

\* KMeans' default max_iter
MaxIter == 300

\* _kmeans_single_lloyd: iterate until the labels repeat or the centres stop
\* moving, then label every sample by its nearest final centre.  (The
\* library also stops once the centres move by less than tol = 1e-4 times
\* the variance; in exact arithmetic on the datasets here a centre either
\* stays or moves by more than that.)
RECURSIVE Lloyd(_, _, _, _)
Lloyd(x, centers, labelsOld, i) ==
    LET labels == AssignLabels(x, centers)
    IN IF i > 0 /\ labels = labelsOld THEN labels
       ELSE LET centersNew == UpdateCenters(x, centers, labels)
            IN IF centersNew = centers \/ i + 1 >= MaxIter
               THEN AssignLabels(x, centersNew)
               ELSE Lloyd(x, centersNew, labels, i + 1)

\* fit_predict with the slip of numbering the clusters from 1
FitPredictFromOne(x, init) ==
    LET l == Lloyd(x, init, <<>>, 0)
    IN [i \in DOMAIN l |-> l[i] + 1]

\* fit_predict from the initial centres init
FitPredict(x, init) == Lloyd(x, init, <<>>, 0)

\* the validation with the slip of not comparing n_clusters to the samples
ClusteringErrorIgnoresSampleCount(df, column, n_clusters) ==
    IF ~HasColumn(df, column) THEN "KeyError"
    ELSE IF n_clusters < 1 THEN "ValueError"
    ELSE IF df.dtypes[column] = "object" THEN "ValueError"
    ELSE ""

\* the exception raised before data['cluster'] is assigned, "" when none:
\* data[[column]] raises KeyError; fit_predict raises ValueError for a
\* n_clusters below 1, for values that are not numbers and for fewer
\* samples than clusters
ClusteringError(df, column, n_clusters) ==
    IF ~HasColumn(df, column) THEN "KeyError"
    ELSE IF n_clusters < 1 THEN "ValueError"
    ELSE IF df.dtypes[column] = "object" THEN "ValueError"
    ELSE IF df.index < n_clusters THEN "ValueError"
    ELSE ""

\* a successful call: the frame after data['cluster'] = labels
PerformClustering(df, column, init) ==
    SetItem(df, "cluster", "int32", FitPredict(df.values[column], init))

(* ------------- data_processing.generate_random_dataset ---------------- *)
NoFile == [exists |-> FALSE, frame |-> EmptyFrame]

\* the exception np.random.choice raises, "" when none: a negative size,
\* or probabilities that do not sum to 1
ChoiceError(num_rows) ==
    IF num_rows < 0 THEN "ValueError"
    ELSE IF SeqSum(Weights) # 100 THEN "ValueError"
    ELSE ""

\* the frame built from the draws, written to filename and returned
GenerateRandomDataset(responses, categories) ==
    MakeFrame(responses, categories, DateRange(Len(responses)))

(* ------------------------------ the state ----------------------------- *)
\* tests/test_analysis.py:7
TestFrame ==
    [index   |-> 6,
     columns |-> <<"response">>,
     dtypes  |-> [response |-> "int64"],
     values  |-> [response |-> <<1, 2, 2, 3, 3, 3>>]]

\* the datasets the analysis functions are applied to: frames of the
\* generator's shape with up to MaxRows rows.  The functions read one column
\* at a time, so the response column varies over every vector beside one
\* category column, and the category column over every vector beside one
\* response column.
SampleCategories == {"A", "B"}

CategoryCycle(n) == [i \in 1..n |-> Categories[((i - 1) % Len(Categories)) + 1]]

AnalysisFrames ==
    {MakeFrame(r, CategoryCycle(Len(r)), DateRange(Len(r))) :
        r \in UNION {[1..n -> 1..MaxVal] : n \in 0..MaxRows}}
    \cup
    {MakeFrame([i \in DOMAIN c |-> 1], c, DateRange(Len(c))) :
        c \in UNION {[1..n -> SampleCategories] : n \in 0..MaxRows}}

Columns == {"response", "category", "timestamp", "cluster"}

\* the columns perform_clustering is called with: the integer columns, the
\* column of strings and, before the first clustering, an absent one
ClusterColumns == {"response", "category", "cluster"}

KValues == (0 - 1)..MaxK

\* the last call: the function, its column and its number (n_clusters or
\* num_rows), and whether the dataset had a cluster column when it was made
Call(op, column, n) ==
    [op |-> op, column |-> column, n |-> n,
     had_cluster |-> HasColumn(data, "cluster")]

Start == [op |-> "start", column |-> "", n |-> 0, had_cluster |-> FALSE]

Init ==
    /\ data \in AnalysisFrames \cup {TestFrame}
    /\ call = Start
    /\ ret = NoReturn
    /\ exc = ""
    /\ csv = NoFile

InitGen ==
    /\ data = EmptyFrame
    /\ call = Start
    /\ ret = NoReturn
    /\ exc = ""
    /\ csv = NoFile

(* ------------------------------ actions ------------------------------- *)
\* calculate_metrics and perform_chi_square_test change nothing but the
\* result of the call, and a failed call leaves the dataset as it was: what
\* can follow them can follow the state they were made in.  The analysis
\* calls are therefore made on the first dataset and on the dataset its
\* first successful clustering leaves behind.
Settled ==
    \/ call.op = "start"
    \/ call.op = "perform_clustering" /\ exc = "" /\ ~call.had_cluster

\* metrics = calculate_metrics(data, column)
CalculateMetricsCall ==
    /\ Settled
    /\ \E column \in Columns :
        LET out == CalculateMetrics(data, column)
        IN /\ call' = Call("calculate_metrics", column, 0)
           /\ ret' = out.ret
           /\ exc' = out.exc
           /\ UNCHANGED <<data, csv>>

\* chi2, p_value = perform_chi_square_test(data, column)
PerformChiSquareTestCall ==
    /\ Settled
    /\ \E column \in Columns :
        LET out == PerformChiSquareTest(data, column)
        IN /\ call' = Call("perform_chi_square_test", column, 0)
           /\ ret' = out.ret
           /\ exc' = out.exc
           /\ UNCHANGED <<data, csv>>

\* data = perform_clustering(data, column, n_clusters)
PerformClusteringCall ==
    /\ Settled
    /\ \E column \in ClusterColumns, n_clusters \in KValues :
        LET err == ClusteringError(data, column, n_clusters)
        IN /\ call' = Call("perform_clustering", column, n_clusters)
           /\ exc' = err
           /\ IF err # ""
              THEN /\ ret' = NoReturn
                   /\ UNCHANGED data
              ELSE \E init \in KMeansPlusPlus(data.values[column], n_clusters) :
                      /\ data' = PerformClustering(data, column, init)
                      /\ ret' = [kind |-> "frame", frame |-> data']
           /\ UNCHANGED csv

\* data = generate_random_dataset(filename, num_rows), the pipeline's first
\* step; its result does not depend on the state it is called in
GenerateRandomDatasetCall ==
    /\ call.op = "start"
    /\ \E num_rows \in (0 - 1)..MaxGenRows :
        LET err == ChoiceError(num_rows)
        IN /\ call' = Call("generate_random_dataset", "", num_rows)
           /\ exc' = err
           /\ IF err # ""
              THEN /\ ret' = NoReturn
                   /\ UNCHANGED <<data, csv>>
              ELSE \E responses \in [1..num_rows -> Support(Choices, Weights)],
                      categories \in [1..num_rows -> Range(Categories)] :
                      /\ data' = GenerateRandomDataset(responses, categories)
                      /\ csv' = [exists |-> TRUE, frame |-> data']
                      /\ ret' = [kind |-> "frame", frame |-> data']

Next ==
    \/ CalculateMetricsCall
    \/ PerformChiSquareTestCall
    \/ PerformClusteringCall

NextGen == GenerateRandomDatasetCall

Spec == Init /\ [][Next]_vars

SpecGen == InitGen /\ [][NextGen]_vars

(* --------------------------- properties ------------------------------- *)
\* the column the last call named, as it stands in the dataset
CalledColumn == data.values[call.column]

MetricsReturned == call.op = "calculate_metrics" /\ exc = "" /\ ret.kind = "metrics"

\* C1: on a dataset with at least one row and a column it holds,
\* calculate_metrics returns num_unique = the number of distinct values,
\* num_total = the number of rows, most_common = a value of maximal count
\* and count_most_common = the count of that value.
C1_MetricsValues ==
    (call.op = "calculate_metrics" /\ HasColumn(data, call.column) /\ data.index >= 1)
    => /\ MetricsReturned
       /\ LET s == CalledColumn
              firsts == {i \in DOMAIN s : \A j \in 1..(i - 1) : s[j] # s[i]}
          IN /\ ret.num_unique = Cardinality(firsts)
             /\ ret.num_total = data.index
             /\ \E i \in DOMAIN s : s[i] = ret.most_common
             /\ \A i \in DOMAIN s : Count(s, s[i]) <= Count(s, ret.most_common)
             /\ ret.count_most_common = Count(s, ret.most_common)

\* the test of tests/test_analysis.py has run and found what it asserts
C1_Witness ==
    /\ data = TestFrame
    /\ call.op = "calculate_metrics" /\ call.column = "response"
    /\ ret.num_unique = 3 /\ ret.num_total = 6
    /\ ret.most_common = 3 /\ ret.count_most_common = 3

\* the dataset with the rows of the called column rearranged by perm
Rearranged(perm) ==
    [data EXCEPT !.values[call.column] =
        [i \in DOMAIN CalledColumn |-> CalledColumn[perm[i]]]]

\* C2: among the values of maximal count most_common is the smallest one,
\* and it is the same for every order of the rows.
C2_TieBreak ==
    MetricsReturned
    => LET s == CalledColumn
           dtype == data.dtypes[call.column]
           tied == {v \in Range(s) : \A w \in Range(s) : Count(s, w) <= Count(s, v)}
       IN /\ ret.most_common \in tied
          /\ \A v \in tied : v = ret.most_common \/ ValLess(dtype, ret.most_common, v)
          /\ \A perm \in Permutations(DOMAIN s) :
                CalculateMetrics(Rearranged(perm), call.column).ret.most_common
                    = ret.most_common

\* two values tie and the smaller one comes second in the rows
C2_Witness ==
    /\ MetricsReturned
    /\ call.column = "response"
    /\ data.values["response"] = <<2, 1>>
    /\ ret.most_common = 1

\* C3: calculate_metrics on a column the dataset lacks raises KeyError (the
\* UnknownColumn failure) and on a column without rows ZeroDivisionError
\* (the EmptyColumn failure); it returns nothing and leaves the dataset as
\* it was.
C3_MetricsFailures ==
    [][call'.op = "calculate_metrics"
       => /\ ~HasColumn(data, call'.column)
             => exc' = "KeyError" /\ ret' = NoReturn /\ data' = data
          /\ (HasColumn(data, call'.column) /\ data.index = 0)
             => exc' = "ZeroDivisionError" /\ ret' = NoReturn /\ data' = data]_vars

\* the call was made on a column of a dataset without rows, and failed
C3_Witness ==
    /\ call.op = "calculate_metrics"
    /\ HasColumn(data, call.column) /\ data.index = 0
    /\ exc = "ZeroDivisionError"

RECURSIVE SquaredDeviations(_, _, _, _)
\* the sum over the values v of S of (k * count(v) - n)^2
SquaredDeviations(S, s, k, n) ==
    IF S = {} THEN 0
    ELSE LET v == CHOOSE w \in S : TRUE
             dev == k * Count(s, v) - n
         IN dev * dev + SquaredDeviations(S \ {v}, s, k, n)

\* C4: on a column with k >= 2 distinct values and n rows the statistic is
\* the sum over the values that occur of (count - n/k)^2 / (n/k), which is
\* the sum of (k * count - n)^2 divided by k * n; it is 0 exactly when all
\* values that occur are equally frequent, and never negative.
C4_ChiSquareStatistic ==
    (/\ call.op = "perform_chi_square_test"
     /\ HasColumn(data, call.column)
     /\ Cardinality(Range(CalledColumn)) >= 2)
    => /\ exc = "" /\ ret.kind = "test"
       /\ LET s == CalledColumn
              k == Cardinality(Range(s))
              n == data.index
          IN /\ ret.chi2.den > 0
             /\ ret.chi2.num * (k * n) = ret.chi2.den * SquaredDeviations(Range(s), s, k, n)
             /\ ret.chi2.num >= 0
             /\ ret.chi2.num = 0 <=> \A v, w \in Range(s) : Count(s, v) = Count(s, w)

\* the test's column [1,2,2,3,3,3]: (1-2)^2/2 + 0 + (3-2)^2/2 = 1
C4_Witness ==
    /\ call.op = "perform_chi_square_test" /\ call.column = "response"
    /\ data = TestFrame
    /\ ret.kind = "test" /\ ret.chi2 = [num |-> 1, den |-> 1]

\* C5: perform_chi_square_test fails, returning no pair, whenever the column
\* has fewer than 2 distinct values or the dataset has no rows.
C5_DegenerateInputFails ==
    (/\ call.op = "perform_chi_square_test"
     /\ HasColumn(data, call.column)
     /\ (Cardinality(Range(CalledColumn)) < 2 \/ data.index = 0))
    => exc # "" /\ ret = NoReturn

NotCluster(c) == c # "cluster"

\* C6: a successful perform_clustering returns the dataset it was given,
\* which then holds exactly one cluster column, one value per row, while
\* every other column, the number of rows and their order are as before.
C6_ClusteringFrame ==
    [][(call'.op = "perform_clustering" /\ exc' = "")
       => /\ ret' = [kind |-> "frame", frame |-> data']
          /\ Cardinality({i \in DOMAIN data'.columns : data'.columns[i] = "cluster"}) = 1
          /\ Len(data'.values["cluster"]) = data.index
          /\ data'.index = data.index
          /\ SelectSeq(data'.columns, NotCluster) = SelectSeq(data.columns, NotCluster)
          /\ \A c \in Range(data.columns) \ {"cluster"} :
                /\ data'.values[c] = data.values[c]
                /\ data'.dtypes[c] = data.dtypes[c]]_vars

\* a second clustering succeeded on a dataset that had a cluster column
C6_Witness ==
    /\ call.op = "perform_clustering" /\ exc = "" /\ call.had_cluster
    /\ data.columns = <<"response", "category", "timestamp", "cluster">>

C8_Labels ==
    [][(call'.op = "perform_clustering" /\ exc' = "")
       => LET x == data.values[call'.column]
              l == data'.values["cluster"]
              k == call'.n
          IN /\ DOMAIN l = DOMAIN x
             /\ \A i \in DOMAIN l : l[i] \in 0..(k - 1)
             /\ \A i, j \in DOMAIN l : x[i] = x[j] => l[i] = l[j]
             /\ k = 1 => \A i, j \in DOMAIN l : l[i] = l[j]]_vars

\* two clusters were asked for and two different labels were given
C8_Witness ==
    /\ call.op = "perform_clustering" /\ exc = "" /\ call.n = 2
    /\ \E i, j \in DOMAIN data.values["cluster"] :
          data.values["cluster"][i] # data.values["cluster"][j]

\* C9: for num_rows > 0 generate_random_dataset returns a dataset of
\* num_rows rows whose responses are integers in 1..10, whose categories
\* are among A, B, C, D and whose timestamps start at 2024-01-01 00:00 and
\* advance by one minute per row.
C9_GeneratedDataset ==
    (call.op = "generate_random_dataset" /\ call.n > 0)
    => /\ exc = "" /\ ret.kind = "frame"
       /\ LET f == ret.frame
          IN /\ f.index = call.n
             /\ f.columns = <<"response", "category", "timestamp">>
             /\ \A c \in Range(f.columns) : DOMAIN f.values[c] = 1..call.n
             /\ \A i \in 1..call.n :
                   /\ f.values["response"][i] \in 1..10
                   /\ f.values["category"][i] \in {"A", "B", "C", "D"}
                   /\ f.values["timestamp"][i] = i - 1
             /\ \A i \in 1..(call.n - 1) :
                   f.values["timestamp"][i + 1] = f.values["timestamp"][i] + 1

\* two rows were generated, with the largest and the smallest response
C9_Witness ==
    /\ call.op = "generate_random_dataset" /\ call.n = 2 /\ exc = ""
    /\ ret.frame.values["response"] = <<10, 1>>
    /\ ret.frame.values["timestamp"] = <<0, 1>>

\* C10: generate_random_dataset fails, producing no dataset and writing no
\* file, whenever num_rows <= 0.
C10_NonPositiveRowsFail ==
    (call.op = "generate_random_dataset" /\ call.n <= 0)
    => exc # "" /\ ret = NoReturn /\ ~csv.exists

====
